---- MODULE Spec2Model ----
(***************************************************************************)
(* A model of the icp_2d crate: the point collections of                   *)
(* icp_collection.rs, the point contract of icp_point.rs and the           *)
(* registration loop Icp::do_icp / Icp::do_icp_generic with its estimator  *)
(* center_of_mass_corresp_kd_with_svd of lib.rs.                           *)
(*                                                                         *)
(* Numbers.  An f32 is modelled as an integer count of quanta of 2^-10     *)
(* (1.0 = Unit quanta), rounded to the 24 significant bits an f32 keeps,   *)
(* ties to even; NaN is a value of its own that every operation            *)
(* propagates and every comparison rejects.  On this grid additions and    *)
(* subtractions round exactly as f32 does; quotients and products are      *)
(* additionally rounded to the grid.  An angle is a count of steps of 15   *)
(* degrees (StepsPerTurn steps a turn); sines and cosines come from a      *)
(* table in quanta, and atan2 returns the nearest step.                    *)
(***************************************************************************)
EXTENDS Integers, Sequences, FiniteSets, TLC

VARIABLES
    debug,                      \* the build: TRUE when debug_assert! is compiled in
    scan1,                      \* the caller's reference slice (&'a [TRef])
    scan2,                      \* the movable Vec<TOther> handed to Icp::new
    points_reference,           \* Icp.points_reference : KDTreedIcpCollection
    points_other,               \* Icp.points_other     : ICPCollection
    max_iterations,
    convergence_distance,
    convergence_rotation,
    convergence_points_maxdist,
    x, y, angle_rad,            \* the arguments of do_icp
    pc,                         \* where the run is
    i,                          \* the loop counter of do_icp_generic
    total_translation,
    total_rotation,
    last,                       \* what the estimator returned in the latest iteration
    converged_count,
    result,                     \* the ICPResult, meaningful once pc = "Done"
    returned,                   \* the Vec<TOther> do_icp hands back
    est_calls,                  \* history: invocations of transformation_fn
    hist,                       \* history: the estimator's outputs, in order
    kd_builds,                  \* history: constructions of the k-d tree
    calls                       \* history: translate/rotate calls made on a bare collection

vars == <<debug, scan1, scan2, points_reference, points_other, max_iterations,
          convergence_distance, convergence_rotation, convergence_points_maxdist,
          x, y, angle_rad, pc, i, total_translation, total_rotation, last,
          converged_count, result, returned, est_calls, hist, kd_builds, calls>>

(***************************************************************************)
(* f32.  The operations are functions, so that an argument is evaluated    *)
(* once.                                                                   *)
(***************************************************************************)
Unit == 2^10
F32Precision == 2^24
NaN == -(2^30)

Abs(v) == IF v < 0 THEN -v ELSE v

RECURSIVE UlpOf(_, _)
UlpOf(m, u) == IF m \div u < F32Precision THEN u ELSE UlpOf(m, 2 * u)

\* num/den (num >= 0, den > 0) rounded to the nearest integer, ties to even.
RoundTiesEven[num \in Int, den \in Int] ==
    LET q == num \div den
        r == num % den
    IN  IF 2 * r < den \/ (2 * r = den /\ q % 2 = 0) THEN q ELSE q + 1

\* The f32 nearest to the exact value v.
F32[v \in Int] ==
    IF v = NaN THEN NaN
    ELSE LET m == Abs(v)
             u == UlpOf(m, 1)
             r == u * RoundTiesEven[m, u]
         IN  IF v < 0 THEN -r ELSE r

FAdd[a \in Int, b \in Int] == IF a = NaN \/ b = NaN THEN NaN ELSE F32[a + b]
FSub[a \in Int, b \in Int] == IF a = NaN \/ b = NaN THEN NaN ELSE F32[a - b]
FAbs(a) == IF a = NaN THEN NaN ELSE Abs(a)
FLt(a, b) == a # NaN /\ b # NaN /\ a < b
FLe(a, b) == a # NaN /\ b # NaN /\ a <= b

\* a / (n as f32) for a count n.  With n = 0 the numerator is an empty sum or an
\* empty count, 0.0, and 0.0 / 0.0 is NaN.
FDivCount[a \in Int, n \in Int] ==
    IF a = NaN \/ n = 0 THEN NaN
    ELSE LET m == Abs(a)
             u == UlpOf(m \div n, 1)
             r == u * RoundTiesEven[m, n * u]
         IN  IF a < 0 THEN -r ELSE r

\* c * v for a table value c (a sine or cosine in quanta) and a coordinate v.
FMulTab[c \in Int, v \in Int] ==
    IF v = NaN THEN NaN
    ELSE LET m == Abs(v)
             k == Abs(c)
             p == k * (m \div Unit) + RoundTiesEven[k * (m % Unit), Unit]
         IN  IF (c < 0) = (v < 0) THEN F32[p] ELSE F32[-p]

(***************************************************************************)
(* Angles: na::Rotation2::new(angle) and f32::atan2                        *)
(***************************************************************************)
SinQuarter == <<0, 265, 512, 724, 887, 989, 1024>>
QuarterTurn == Len(SinQuarter) - 1
HalfTurn == 2 * QuarterTurn
StepsPerTurn == 4 * QuarterTurn

Sin(a) ==
    LET m == a % StepsPerTurn
    IN  IF m <= QuarterTurn THEN SinQuarter[m + 1]
        ELSE IF m <= HalfTurn THEN SinQuarter[HalfTurn - m + 1]
        ELSE IF m <= HalfTurn + QuarterTurn THEN -SinQuarter[m - HalfTurn + 1]
        ELSE -SinQuarter[StepsPerTurn - m + 1]

Cos(a) == Sin(a + QuarterTurn)

\* atan2 depends on the direction of (xx, yy) only: both are halved until the
\* dot products below fit the integers of the model.
RECURSIVE Shrink(_)
Shrink(v) ==
    IF Abs(v[1]) < 2^19 /\ Abs(v[2]) < 2^19 THEN v
    ELSE Shrink(<<(IF v[1] < 0 THEN -1 ELSE 1) * RoundTiesEven[Abs(v[1]), 2],
                  (IF v[2] < 0 THEN -1 ELSE 1) * RoundTiesEven[Abs(v[2]), 2]>>)

\* The step whose direction is nearest to (xx, yy), in [0, HalfTurn] for
\* yy >= 0 and in [-HalfTurn, 0] for yy < 0; atan2(0, 0) = 0.
atan2(yy, xx) ==
    IF xx = 0 /\ yy = 0 THEN 0
    ELSE LET v == Shrink(<<xx, yy>>)
             Steps == IF yy < 0 THEN (-HalfTurn)..0 ELSE 0..HalfTurn
             Dot(a) == Cos(a) * v[1] + Sin(a) * v[2]
             best == {a \in Steps : \A b \in Steps : Dot(b) <= Dot(a)}
         IN  CHOOSE a \in best :
                \A b \in best : Abs(a) < Abs(b) \/ (Abs(a) = Abs(b) /\ b <= a)

(***************************************************************************)
(* icp_point.rs: the ICPPoint contract.  A point is <<x, y>>; the two       *)
(* implementations (na::Point2<f32> and (f32, f32)) compute the same.      *)
(***************************************************************************)
ICPPoint_translate(p, dx, dy) == <<FAdd[p[1], dx], FAdd[p[2], dy]>>

ICPPoint_rotate(p, a) ==
    <<FSub[FMulTab[Cos(a), p[1]], FMulTab[Sin(a), p[2]]],
      FAdd[FMulTab[Sin(a), p[1]], FMulTab[Cos(a), p[2]]]>>

is_data_valid(p) == TRUE

(***************************************************************************)
(* icp_collection.rs                                                       *)
(***************************************************************************)
RECURSIVE SumCoords(_, _, _)
SumCoords(pts, c, k) ==
    IF k = 0 THEN 0 ELSE FAdd[SumCoords(pts, c, k - 1), pts[k][c]]

calculate_center_of_mass(pts) ==
    <<FDivCount[SumCoords(pts, 1, Len(pts)), Len(pts)],
      FDivCount[SumCoords(pts, 2, Len(pts)), Len(pts)]>>

floats_are_equal(a, b) == FLe(FAbs(FSub[a, b]), Unit \div 1000)

points_equal_tolerance(p1, p2) ==
    floats_are_equal(p1[1], p2[1]) /\ floats_are_equal(p1[2], p2[2])

assert_valid(col_points, center) ==
    /\ \A k \in DOMAIN col_points : is_data_valid(col_points[k])
    /\ points_equal_tolerance(center, calculate_center_of_mass(col_points))

ICPCollection_new(points) ==
    [points |-> points, center_of_mass |-> calculate_center_of_mass(points)]

ICPCollection_translate(col, dx, dy) ==
    [points |-> [k \in DOMAIN col.points |-> ICPPoint_translate(col.points[k], dx, dy)],
     center_of_mass |-> <<FAdd[col.center_of_mass[1], dx], FAdd[col.center_of_mass[2], dy]>>]

ICPCollection_rotate(col, a) ==
    LET pts == [k \in DOMAIN col.points |-> ICPPoint_rotate(col.points[k], a)]
    IN  [points |-> pts, center_of_mass |-> calculate_center_of_mass(pts)]

\* The debug_assert! closing translate and rotate, on the collection they leave.
debug_assert_center(col) ==
    points_equal_tolerance(col.center_of_mass, calculate_center_of_mass(col.points))

KDTreedIcpCollection_new(points) ==
    [collection |-> points,
     kd_tree |-> {[coord |-> points[k], data |-> k] : k \in DOMAIN points},
     center_of_mass |-> calculate_center_of_mass(points)]

\* kdtree::distance::squared_euclidean
squared_euclidean(a, b) == (a[1] - b[1]) * (a[1] - b[1]) + (a[2] - b[2]) * (a[2] - b[2])

\* A faulty lookup: the entry farthest from p instead of the nearest.
iter_farthest(kd_tree, p) ==
    CHOOSE e \in kd_tree :
        \A o \in kd_tree :
            \/ squared_euclidean(e.coord, p) > squared_euclidean(o.coord, p)
            \/ /\ squared_euclidean(e.coord, p) = squared_euclidean(o.coord, p)
               /\ e.data <= o.data

\* The first entry KdTree::iter_nearest yields: the nearest stored coordinate
\* (among equally near ones, the one added first).
iter_nearest(kd_tree, p) ==
    CHOOSE e \in kd_tree :
        \A o \in kd_tree :
            \/ squared_euclidean(e.coord, p) < squared_euclidean(o.coord, p)
            \/ /\ squared_euclidean(e.coord, p) = squared_euclidean(o.coord, p)
               /\ e.data <= o.data

\* closest_point_kd unwraps the first entry: with no entry it panics.
closest_point_kd_panics(ref) == ref.kd_tree = {}

closest_point_kd(ref, p) == ref.collection[iter_nearest(ref.kd_tree, p).data]

\* A faulty lookup that consumes what it finds: the nearest entry leaves the tree.
closest_point_kd_evicts(ref, p) ==
    [ref EXCEPT !.kd_tree = @ \ {iter_nearest(@, p)}]

\* closest_point_kd takes &mut self; this is self when it returns.
closest_point_kd_self(ref, p) == ref

RECURSIVE AfterQueries(_, _, _)
AfterQueries(ref, pts, k) ==
    IF k = 0 THEN ref ELSE closest_point_kd_self(AfterQueries(ref, pts, k - 1), pts[k])

(***************************************************************************)
(* lib.rs: Icp::center_of_mass_corresp_kd_with_svd                         *)
(***************************************************************************)
\* a * b for 0 <= a, b < 2^24 as <<high, low>>, high * Base^2 + low, low < Base^2.
Base == 2^12
Wide(a, b) ==
    LET a1 == a \div Base
        a0 == a % Base
        b1 == b \div Base
        b0 == b % Base
        mid == a1 * b0 + a0 * b1
        low == (mid % Base) * Base + a0 * b0
    IN  <<a1 * b1 + (mid \div Base) + (low \div (Base * Base)), low % (Base * Base)>>

WideLess(p, q) == p[1] < q[1] \/ (p[1] = q[1] /\ p[2] < q[2])

Sign(v) == IF v < 0 THEN -1 ELSE IF v = 0 THEN 0 ELSE 1

\* a * d < b * c
ProductLess(a, d, b, c) ==
    LET s1 == Sign(a) * Sign(d)
        s2 == Sign(b) * Sign(c)
    IN  IF s1 # s2 THEN s1 < s2
        ELSE IF s1 = 0 THEN FALSE
        ELSE IF s1 = 1 THEN WideLess(Wide(Abs(a), Abs(d)), Wide(Abs(b), Abs(c)))
        ELSE WideLess(Wide(Abs(b), Abs(c)), Wide(Abs(a), Abs(d)))

RECURSIVE SumOver(_, _)
SumOver(f, k) == IF k = 0 THEN 0 ELSE FAdd[SumOver(f, k - 1), f[k]]

\* u * v_t for na::SVD::new(h, true, true): the orthogonal factor of h.  With
\* det h > 0 it is the rotation by atan2(h21 - h12, h11 + h22); with det h < 0
\* it is the reflection [[cos a, sin a], [sin a, -cos a]], a = atan2(h21 + h12,
\* h11 - h22); with det h = 0 nalgebra's closed form for a 2x2 matrix takes the
\* smaller singular value as non-negative and yields the rotation.
rotation_matrix(h) ==
    IF ProductLess(h[1][1], h[2][2], h[1][2], h[2][1])
    THEN [reflection |-> TRUE,
          angle |-> atan2(h[2][1] + h[1][2], h[1][1] - h[2][2])]
    ELSE [reflection |-> FALSE,
          angle |-> atan2(h[2][1] - h[1][2], h[1][1] + h[2][2])]

\* rotation_matrix * v
MatVec(r, v) ==
    IF r.reflection
    THEN <<FAdd[FMulTab[Cos(r.angle), v[1]], FMulTab[Sin(r.angle), v[2]]],
           FSub[FMulTab[Sin(r.angle), v[1]], FMulTab[Cos(r.angle), v[2]]]>>
    ELSE ICPPoint_rotate(v, r.angle)

center_of_mass_corresp_kd_with_svd(ref, other) ==
    LET pts == other.points
        n == Len(pts)
        corresp == [k \in DOMAIN pts |-> <<pts[k], closest_point_kd(ref, pts[k])>>]
        centroid1 == <<FDivCount[SumOver([k \in DOMAIN pts |-> corresp[k][2][1]], n), n],
                       FDivCount[SumOver([k \in DOMAIN pts |-> corresp[k][2][2]], n), n]>>
        centroid2 == <<FDivCount[SumOver([k \in DOMAIN pts |-> corresp[k][1][1]], n), n],
                       FDivCount[SumOver([k \in DOMAIN pts |-> corresp[k][1][2]], n), n]>>
        d1(k) == <<FSub[corresp[k][2][1], centroid1[1]], FSub[corresp[k][2][2], centroid1[2]]>>
        d2(k) == <<FSub[corresp[k][1][1], centroid2[1]], FSub[corresp[k][1][2], centroid2[2]]>>
        H(r, c) == SumOver([k \in DOMAIN pts |-> F32[d1(k)[r] * d2(k)[c]]], n)
        h == <<<<H(1, 1), H(1, 2)>>, <<H(2, 1), H(2, 2)>>>>
        rot == rotation_matrix(h)
        \* rotation_matrix[(1, 0)].atan2(rotation_matrix[(0, 0)])
        rotation_angle == rot.angle
        moved == MatVec(rot, centroid2)
    IN  [translation |-> <<FSub[centroid1[1], moved[1]], FSub[centroid1[2], moved[2]]>>,
         rotation |-> rotation_angle]

\* The estimator panics where closest_point_kd does: a movable point to look up
\* and an empty tree.
estimator_panics(ref, other) == Len(other.points) > 0 /\ closest_point_kd_panics(ref)

(***************************************************************************)
(* lib.rs: Icp::new, Icp::new_default, Icp::do_icp, Icp::do_icp_generic    *)
(***************************************************************************)
\* Icp::new_default's arguments on the grid: 50 iterations, 0.005, 0.1 degrees
\* (below one step: only a zero rotation is under it) and 0.01.
new_default ==
    [max_iterations |-> 50, convergence_distance |-> 5,
     convergence_rotation |-> 1, convergence_points_maxdist |-> 10]

\* translation_vector.norm() < distance
norm_less(t, distance) ==
    /\ t[1] # NaN /\ t[2] # NaN /\ distance # NaN
    /\ distance > 0
    /\ t[1] * t[1] + t[2] * t[2] < distance * distance

\* A faulty break test: one threshold met is enough.
converged_either(out, distance, rotation) ==
    norm_less(out.translation, distance) \/ FLt(FAbs(out.rotation), rotation)

\* The break test of the loop.
converged(out, distance, rotation) ==
    norm_less(out.translation, distance) /\ FLt(FAbs(out.rotation), rotation)

\* self.points_other.translate(dx, dy); self.points_other.rotate(a): the
\* collection left behind, and whether both calls returned (a debug build
\* panics in the call whose debug_assert! fails, and the second call is
\* then not made).
translate_then_rotate(col, dx, dy, a, dbg) ==
    LET c1 == ICPCollection_translate(col, dx, dy)
        c2 == ICPCollection_rotate(c1, a)
    IN  IF dbg /\ ~debug_assert_center(c1) THEN [col |-> c1, ok |-> FALSE]
        ELSE IF dbg /\ ~debug_assert_center(c2) THEN [col |-> c2, ok |-> FALSE]
        ELSE [col |-> c2, ok |-> TRUE]

\* A faulty accumulation: the total is overwritten, not added to.
accumulate_translation_overwrite(total, t) == t

\* total_translation += translation_vector; total_rotation += rotation
accumulate_translation(total, t) == <<FAdd[total[1], t[1]], FAdd[total[2], t[2]]>>
accumulate_rotation(total, r) == FAdd[total, r]

\* The test of the final pass on one movable point.
point_converged(ref, pt, maxdist) ==
    LET closest == closest_point_kd(ref, pt)
    IN  /\ FLt(FAbs(FSub[pt[1], closest[1]]), maxdist)
        /\ FLt(FAbs(FSub[pt[2], closest[2]]), maxdist)

count_converged(ref, pts, maxdist) ==
    Cardinality({k \in DOMAIN pts : point_converged(ref, pts[k], maxdist)})

\* converged_count as f32 / len as f32
convergence_ratio(count, len) == FDivCount[count * Unit, len]

\* lib.rs 50-57: the totals start at the initial guess, which is applied to the
\* movable collection as one translate and one rotate.
ApplyInitialGuess ==
    /\ pc = "Initialized"
    /\ \E moved \in {translate_then_rotate(points_other, x, y, angle_rad, debug)} :
           /\ points_other' = moved.col
           /\ pc' = IF moved.ok THEN "Iterating" ELSE "Panicked"
    /\ total_translation' = <<x, y>>
    /\ total_rotation' = angle_rad
    /\ i' = 0
    /\ UNCHANGED <<debug, scan1, scan2, points_reference, max_iterations,
                   convergence_distance, convergence_rotation,
                   convergence_points_maxdist, x, y, angle_rad, last,
                   converged_count, result, returned, est_calls, hist,
                   kd_builds, calls>>

\* lib.rs 58-75: one pass of the loop body.
Iterate ==
    /\ pc = "Iterating"
    /\ i < max_iterations
    /\ est_calls' = est_calls + 1
    /\ IF estimator_panics(points_reference, points_other)
       THEN /\ pc' = "Panicked"
            /\ UNCHANGED <<points_reference, points_other, total_translation,
                           total_rotation, i, last, hist>>
       ELSE \E out \in {center_of_mass_corresp_kd_with_svd(points_reference, points_other)} :
            \E moved \in {translate_then_rotate(points_other, out.translation[1],
                                                out.translation[2], out.rotation, debug)} :
                /\ points_reference' =
                      AfterQueries(points_reference, points_other.points,
                                   Len(points_other.points))
                /\ last' = out
                /\ hist' = Append(hist, out)
                /\ points_other' = moved.col
                /\ IF moved.ok
                   THEN /\ total_translation' =
                              accumulate_translation(total_translation, out.translation)
                        /\ total_rotation' = accumulate_rotation(total_rotation, out.rotation)
                        /\ i' = i + 1
                        /\ pc' = IF converged(out, convergence_distance, convergence_rotation)
                                 THEN "Converged" ELSE "Iterating"
                   ELSE /\ pc' = "Panicked"
                        /\ UNCHANGED <<total_translation, total_rotation, i>>
    /\ UNCHANGED <<debug, scan1, scan2, max_iterations, convergence_distance,
                   convergence_rotation, convergence_points_maxdist, x, y,
                   angle_rad, converged_count, result, returned, kd_builds, calls>>

\* lib.rs 58: the loop test fails.
Exhausted ==
    /\ pc = "Iterating"
    /\ ~(i < max_iterations)
    /\ pc' = "MaxIterationsReached"
    /\ UNCHANGED <<debug, scan1, scan2, points_reference, points_other,
                   max_iterations, convergence_distance, convergence_rotation,
                   convergence_points_maxdist, x, y, angle_rad, i,
                   total_translation, total_rotation, last, converged_count,
                   result, returned, est_calls, hist, kd_builds, calls>>

\* lib.rs 76-85: the final pass over the movable points.
CountConverged ==
    /\ pc \in {"Converged", "MaxIterationsReached"}
    /\ IF Len(points_other.points) > 0 /\ closest_point_kd_panics(points_reference)
       THEN /\ pc' = "Panicked"
            /\ UNCHANGED <<points_reference, converged_count>>
       ELSE /\ converged_count' = count_converged(points_reference, points_other.points,
                                                  convergence_points_maxdist)
            /\ points_reference' =
                  AfterQueries(points_reference, points_other.points,
                               Len(points_other.points))
            /\ pc' = "Finalizing"
    /\ UNCHANGED <<debug, scan1, scan2, points_other, max_iterations,
                   convergence_distance, convergence_rotation,
                   convergence_points_maxdist, x, y, angle_rad, i,
                   total_translation, total_rotation, last, result, returned,
                   est_calls, hist, kd_builds, calls>>

\* lib.rs 86 and 42-46: the ICPResult is built and do_icp returns it with the
\* movable points (ICPCollection::inner).
Return ==
    /\ pc = "Finalizing"
    /\ result' = [x_offset |-> total_translation[1],
                  y_offset |-> total_translation[2],
                  rotation_offset_rad |-> total_rotation,
                  convergence |-> convergence_ratio(converged_count,
                                                    Len(points_other.points))]
    /\ returned' = points_other.points
    /\ pc' = "Done"
    /\ UNCHANGED <<debug, scan1, scan2, points_reference, points_other,
                   max_iterations, convergence_distance, convergence_rotation,
                   convergence_points_maxdist, x, y, angle_rad, i,
                   total_translation, total_rotation, last, converged_count,
                   est_calls, hist, kd_builds, calls>>

Next == ApplyInitialGuess \/ Iterate \/ Exhausted \/ CountConverged \/ Return

(***************************************************************************)
(* Inputs                                                                  *)
(***************************************************************************)
SeqsUpTo(S, n) == UNION {[1..k -> S] : k \in 0..n}

Zero2 == <<0, 0>>
NoOutput == [translation |-> Zero2, rotation |-> 0]
NoResult == [x_offset |-> 0, y_offset |-> 0, rotation_offset_rad |-> 0, convergence |-> 0]

\* The sequences of at most n of the points of the list P, in the order of P.
Scans(P, n) ==
    {[k \in 1..Cardinality(S) |->
         P[CHOOSE j \in S : Cardinality({l \in S : l < j}) = k - 1]] :
       S \in {T \in SUBSET (1..Len(P)) : Cardinality(T) <= n}}

\* Icp::new(scan1, scan2, ...), called once the inputs are chosen.
Constructed(s1, s2, params) ==
    /\ scan1 = s1
    /\ scan2 = s2
    /\ points_reference = KDTreedIcpCollection_new(s1)
    /\ kd_builds = 1
    /\ points_other = ICPCollection_new(s2)
    /\ max_iterations = params.max_iterations
    /\ convergence_distance = params.convergence_distance
    /\ convergence_rotation = params.convergence_rotation
    /\ convergence_points_maxdist = params.convergence_points_maxdist
    /\ pc = "Initialized"
    /\ i = 0
    /\ total_translation = Zero2
    /\ total_rotation = 0
    /\ last = NoOutput
    /\ converged_count = 0
    /\ result = NoResult
    /\ returned = <<>>
    /\ est_calls = 0
    /\ hist = <<>>
    /\ calls = 0

(***************************************************************************)
(* Registration runs: Icp::new on any two scans and parameters, then       *)
(* do_icp with any initial guess.                                          *)
(***************************************************************************)
MaxIterations == 2
MaxRefPts == 3
MaxOtherPts == 3
RefPoints == <<<<0, 0>>, <<300, 0>>, <<0, 100>>>>
OtherPoints == RefPoints \o <<<<24, -8>>, <<310, 40>>>>
Guesses == {<<0, 0, 0>>, <<24, -8, 0>>, <<0, 0, 1>>, <<24, -8, 1>>}
Distances == {new_default.convergence_distance, 2^6}

Init ==
    /\ debug \in BOOLEAN
    /\ \E s1 \in Scans(RefPoints, MaxRefPts), s2 \in Scans(OtherPoints, MaxOtherPts),
          n \in 0..MaxIterations, d \in Distances :
          Constructed(s1, s2, [new_default EXCEPT !.max_iterations = n,
                                                  !.convergence_distance = d])
    /\ \E g \in Guesses : x = g[1] /\ y = g[2] /\ angle_rad = g[3]

Spec == Init /\ [][Next]_vars

(***************************************************************************)
(* lib.rs, test::do_test: the movable scan is the reference scan, every    *)
(* point translated by (dx, dy) and then rotated by theta about the        *)
(* origin; the session is registered from the initial guess (0, 0, 0).     *)
(***************************************************************************)
do_test_scan(S, dx, dy, theta) ==
    [k \in DOMAIN S |-> ICPPoint_rotate(ICPPoint_translate(S[k], dx, dy), theta)]

RecoverScans ==
    {<<<<0, 0>>, <<3 * Unit, 0>>, <<0, Unit>>, <<2 * Unit, 2 * Unit>>>>,
     <<<<0, 0>>, <<3 * Unit, 0>>, <<0, Unit>>>>}
RecoverShifts == {<<0, 0>>, <<100, 50>>, <<-60, 0>>}
RecoverAngles == {0, 1, -1}
RecoverIterations == (0..MaxIterations) \cup {new_default.max_iterations}

InitRecover ==
    /\ debug \in BOOLEAN
    /\ \E S \in RecoverScans, d \in RecoverShifts, theta \in RecoverAngles,
          n \in RecoverIterations :
          Constructed(S, do_test_scan(S, d[1], d[2], theta),
                      [new_default EXCEPT !.max_iterations = n])
    /\ x = 0 /\ y = 0 /\ angle_rad = 0

SpecRecover == InitRecover /\ [][Next]_vars

(***************************************************************************)
(* A bare ICPCollection driven through its own interface: any sequence of  *)
(* translate and rotate calls on a collection built by ICPCollection::new, *)
(* next to a KDTreedIcpCollection over the same points.                    *)
(***************************************************************************)
MaxColPts == 2
MaxCalls == 4
Far == 2^25
ColPoints == {<<0, 0>>, <<3, -1>>, <<Far, 0>>, <<0, -Far>>}
ColDeltas == {0, 1, -3}
ColAngles == {1, QuarterTurn}

InitCol ==
    /\ debug \in BOOLEAN
    /\ scan2 \in SeqsUpTo(ColPoints, MaxColPts)
    /\ scan1 = scan2
    /\ points_reference = KDTreedIcpCollection_new(scan1)
    /\ kd_builds = 1
    /\ points_other = ICPCollection_new(scan2)
    /\ pc = "Collection"
    /\ calls = 0
    /\ max_iterations = 0
    /\ convergence_distance = 0
    /\ convergence_rotation = 0
    /\ convergence_points_maxdist = 0
    /\ x = 0 /\ y = 0 /\ angle_rad = 0
    /\ i = 0
    /\ total_translation = Zero2
    /\ total_rotation = 0
    /\ last = NoOutput
    /\ converged_count = 0
    /\ result = NoResult
    /\ returned = <<>>
    /\ est_calls = 0
    /\ hist = <<>>

\* What a translate or rotate call leaves: the collection it wrote, and a panic
\* where the build checks the closing debug_assert! and it fails.
AfterCall(col) ==
    /\ points_other' = col
    /\ pc' = IF debug /\ ~debug_assert_center(col) THEN "Panicked" ELSE pc
    /\ calls' = calls + 1
    /\ UNCHANGED <<debug, scan1, scan2, points_reference, max_iterations,
                   convergence_distance, convergence_rotation,
                   convergence_points_maxdist, x, y, angle_rad, i,
                   total_translation, total_rotation, last, converged_count,
                   result, returned, est_calls, hist, kd_builds>>

ColTranslate ==
    /\ pc = "Collection"
    /\ calls < MaxCalls
    /\ \E dx \in ColDeltas, dy \in ColDeltas :
          AfterCall(ICPCollection_translate(points_other, dx, dy))

ColRotate ==
    /\ pc = "Collection"
    /\ calls < MaxCalls
    /\ \E a \in ColAngles : AfterCall(ICPCollection_rotate(points_other, a))

NextCol == ColTranslate \/ ColRotate

SpecCol == InitCol /\ [][NextCol]_vars

(***************************************************************************)
(* C1: in the loop of do_icp, the estimator is invoked again only while no *)
(* earlier output had both its translation norm under convergence_distance *)
(* and its rotation under convergence_rotation; an iteration whose output  *)
(* meets both thresholds is still applied to the movable collection and    *)
(* added to the totals, and the run then goes straight to the final pass;  *)
(* an iteration that fails a threshold with budget left is followed by the *)
(* next iteration.                                                         *)
(***************************************************************************)
C1_BothUnder(out) ==
    /\ norm_less(out.translation, convergence_distance)
    /\ FLt(FAbs(out.rotation), convergence_rotation)

C1_EarlyStop ==
    [][/\ est_calls' # est_calls =>
            /\ pc = "Iterating" /\ i < max_iterations
            /\ est_calls > 0 => ~C1_BothUnder(last)
            /\ pc' # "Panicked" =>
                  pc' = IF C1_BothUnder(last') THEN "Converged" ELSE "Iterating"
            /\ pc' = "Converged" =>
                  /\ points_other'.points =
                        [k \in DOMAIN points_other.points |->
                            ICPPoint_rotate(
                                ICPPoint_translate(points_other.points[k],
                                                   last'.translation[1],
                                                   last'.translation[2]),
                                last'.rotation)]
                  /\ total_translation' =
                        <<FAdd[total_translation[1], last'.translation[1]],
                          FAdd[total_translation[2], last'.translation[2]]>>
                  /\ total_rotation' = FAdd[total_rotation, last'.rotation]
       /\ pc = "Converged" => pc' \in {"Finalizing", "Panicked"} /\ est_calls' = est_calls
       /\ (pc = "Iterating" /\ i < max_iterations) => est_calls' = est_calls + 1
      ]_vars

C1_Witness ==
    /\ pc = "Converged"
    /\ est_calls < max_iterations
    /\ last.translation # Zero2
    /\ last.translation[1] # NaN

(***************************************************************************)
(* C2: a non-empty ICPCollection, and the KDTreedIcpCollection, keep their *)
(* stored center_of_mass within 0.001 per axis of the mean recomputed from *)
(* the current points, after construction and after every translate and    *)
(* rotate call.                                                            *)
(***************************************************************************)
C2_CenterOfMassWithinTolerance ==
    /\ Len(points_other.points) > 0 => debug_assert_center(points_other)
    /\ Len(points_reference.collection) > 0 =>
          assert_valid(points_reference.collection, points_reference.center_of_mass)

(***************************************************************************)
(* C3: the convergence of a returned ICPResult is converged_count over the *)
(* number of movable points, lies in [0.0, 1.0], and is 1.0 only if every  *)
(* returned point has its nearest reference point within                   *)
(* convergence_points_maxdist on both axes.                                *)
(***************************************************************************)
C3_ConvergenceInUnitInterval ==
    pc = "Done" =>
        /\ result.convergence # NaN
        /\ 0 <= result.convergence /\ result.convergence <= Unit
        /\ result.convergence = FDivCount[converged_count * Unit, Len(returned)]
        /\ result.convergence = Unit =>
              \A k \in DOMAIN returned :
                  LET closest == closest_point_kd(points_reference, returned[k])
                  IN  /\ Abs(returned[k][1] - closest[1]) < convergence_points_maxdist
                      /\ Abs(returned[k][2] - closest[2]) < convergence_points_maxdist

(***************************************************************************)
(* C4: with an empty reference or movable sequence, the run neither panics *)
(* nor returns an ICPResult with a NaN field.                              *)
(***************************************************************************)
C4_EmptyInputRejected ==
    (Len(scan1) = 0 \/ Len(scan2) = 0) =>
        /\ pc # "Panicked"
        /\ pc = "Done" =>
              /\ result.x_offset # NaN
              /\ result.y_offset # NaN
              /\ result.rotation_offset_rad # NaN
              /\ result.convergence # NaN

C6_RecoversTransform ==
    \A d \in RecoverShifts, theta \in RecoverAngles :
        ( /\ pc = "Done"
          /\ max_iterations = new_default.max_iterations
          /\ scan2 = do_test_scan(scan1, d[1], d[2], theta) ) =>
            /\ FLe(FAbs(FAdd[result.x_offset, d[1]]), convergence_distance)
            /\ FLe(FAbs(FAdd[result.y_offset, d[2]]), convergence_distance)
            /\ FLt(FAbs(FAdd[result.rotation_offset_rad, theta]), convergence_rotation)

(***************************************************************************)
(* C7: the reference collection (points, k-d tree entries, stored center   *)
(* of mass) is in every state what Icp::new built from scan1, no step      *)
(* changes it, and the k-d tree is built exactly once.                     *)
(***************************************************************************)
C7_ReferenceNeverChanges ==
    [][/\ points_reference = KDTreedIcpCollection_new(scan1)
       /\ points_reference' = points_reference
       /\ scan1' = scan1
       /\ kd_builds = 1 /\ kd_builds' = 1
      ]_vars

C7_Witness ==
    /\ pc = "Done"
    /\ est_calls >= 2
    /\ Len(scan1) >= 2 /\ Len(scan2) >= 2

(***************************************************************************)
(* C8: the run goes Initialized, Iterating, Converged or                   *)
(* MaxIterationsReached, Finalizing, Done and is in no other state;        *)
(* the estimator is invoked at most max_iterations times, exactly          *)
(* max_iterations times when the budget runs out, and never when           *)
(* max_iterations = 0.                                                     *)
(***************************************************************************)
C8_AlwaysReachesDone ==
    /\ pc \in {"Initialized", "Iterating", "Converged", "MaxIterationsReached",
               "Finalizing", "Done"}
    /\ est_calls <= max_iterations
    /\ pc = "MaxIterationsReached" => est_calls = max_iterations
    /\ max_iterations = 0 => est_calls = 0

(***************************************************************************)
(* C9: the initial guess is applied as one translate followed by one       *)
(* rotate, every iteration translates the movable collection by its t and  *)
(* then rotates it by its r, and the reported offsets are the guess plus   *)
(* the estimator's outputs added up in order, the rotation without any     *)
(* wrapping.                                                               *)
(***************************************************************************)
RECURSIVE C9_Sum(_, _, _)
C9_Sum(start, terms, k) ==
    IF k = 0 THEN start ELSE FAdd[C9_Sum(start, terms, k - 1), terms[k]]

C9_Moved(pts, dx, dy, a) ==
    [k \in DOMAIN pts |-> ICPPoint_rotate(ICPPoint_translate(pts[k], dx, dy), a)]

C9_TotalsArePlainSums ==
    [][/\ (pc = "Initialized" /\ pc' = "Iterating") =>
            points_other'.points = C9_Moved(points_other.points, x, y, angle_rad)
       /\ (pc = "Iterating" /\ pc' \in {"Iterating", "Converged"}) =>
            /\ hist' = Append(hist, last')
            /\ points_other'.points =
                  C9_Moved(points_other.points, last'.translation[1],
                           last'.translation[2], last'.rotation)
       /\ pc' = "Done" =>
            LET n == Len(hist)
            IN  /\ n = est_calls
                /\ result'.x_offset =
                      C9_Sum(x, [k \in 1..n |-> hist[k].translation[1]], n)
                /\ result'.y_offset =
                      C9_Sum(y, [k \in 1..n |-> hist[k].translation[2]], n)
                /\ result'.rotation_offset_rad =
                      C9_Sum(angle_rad, [k \in 1..n |-> hist[k].rotation], n)
      ]_vars

C9_Witness ==
    /\ pc = "Done"
    /\ Len(hist) >= 2
    /\ <<x, y>> # Zero2 /\ angle_rad # 0
    /\ hist[1].translation # Zero2 /\ hist[1].rotation # 0
    /\ hist[2].translation # Zero2
    /\ result.x_offset # NaN

(***************************************************************************)
(* C10: the returned movable sequence has the length of the input, and is  *)
(* the input with translate(x_offset, y_offset) and then                   *)
(* rotate(rotation_offset_rad) applied, point by point (here: within       *)
(* convergence_points_maxdist on each axis).                               *)
(***************************************************************************)
C10_ResultDescribesAppliedTransform ==
    pc = "Done" =>
        /\ Len(returned) = Len(scan2)
        /\ \A k \in DOMAIN returned :
              LET p == ICPPoint_rotate(
                           ICPPoint_translate(scan2[k], result.x_offset, result.y_offset),
                           result.rotation_offset_rad)
              IN  /\ FLt(FAbs(FSub[returned[k][1], p[1]]), new_default.convergence_points_maxdist)
                  /\ FLt(FAbs(FSub[returned[k][2], p[2]]), new_default.convergence_points_maxdist)

====
